---- MODULE Spec2Model ----
(***************************************************************************)
(* Model of livesport-crawler (src/src/main.rs): the poll loop of main,    *)
(* the snapshot extractor get_score with its locator                       *)
(* get_latest_match_element, the classifier get_minute_of_game and the     *)
(* normaliser parse_datetime.                                              *)
(*                                                                         *)
(* Text is a sequence of one-character strings, so that splitting,         *)
(* prefix tests and integer parsing are computed as the code computes      *)
(* them.  The browser, the page, the file system and the wall clock are    *)
(* the environment: every read of them is a choice over a small set.       *)
(***************************************************************************)
EXTENDS Integers, Sequences, FiniteSets, TLC

(***************************************************************************)
(* Bounds of the model.                                                    *)
(***************************************************************************)
\* number of scrape cycles one run of the poll loop may start
MaxCycles == 2
\* number of .event__part--home elements a match row may hold
MaxParts == 2

(***************************************************************************)
(* Program constants.                                                      *)
(***************************************************************************)
PERIOD_MINUTES == 20
\* the attempt budget of get_latest_match_element, `for _ in 0..10`
LocatorAttempts == 10

(***************************************************************************)
(* Text literals.                                                          *)
(***************************************************************************)
sAlpha == <<"A", "l", "p", "h", "a">>
sAlphaFC == <<"A", "l", "p", "h", "a", " ", "F", "C">>
sBeta == <<"B", "e", "t", "a">>
sEmpty == <<>>
s1 == <<"1">>
s2 == <<"2">>
s5 == <<"5">>
s10 == <<"1", "0">>
s10q == <<"1", "0", "'">>
sX == <<"x">>
s1800 == <<"1", "8", ":", "0", "0">>
s0709_1800 == <<"0", "7", ".", "0", "9", ".", " ", "1", "8", ":", "0", "0">>
s0709_2023 == <<"0", "7", ".", "0", "9", ".", "2", "0", "2", "3">>

Digits == {"0", "1", "2", "3", "4", "5", "6", "7", "8", "9"}

DigitVal(c) ==
    CASE c = "0" -> 0 [] c = "1" -> 1 [] c = "2" -> 2 [] c = "3" -> 3
      [] c = "4" -> 4 [] c = "5" -> 5 [] c = "6" -> 6 [] c = "7" -> 7
      [] c = "8" -> 8 [] c = "9" -> 9

(***************************************************************************)
(* Rust's result and option values.                                        *)
(***************************************************************************)
OkVal(v) == [ok |-> TRUE, val |-> v]
ErrVal == [ok |-> FALSE, val |-> 0]

\* str::starts_with
StartsWith(s, p) == Len(p) <= Len(s) /\ SubSeq(s, 1, Len(p)) = p

\* str::strip_suffix(c).unwrap_or(s): one trailing c removed when there is one
StripSuffix(s, c) ==
    IF Len(s) > 0 /\ s[Len(s)] = c THEN SubSeq(s, 1, Len(s) - 1) ELSE s

RECURSIVE DigitsValue(_)
DigitsValue(s) ==
    IF s = <<>> THEN 0
    ELSE 10 * DigitsValue(SubSeq(s, 1, Len(s) - 1)) + DigitVal(s[Len(s)])

\* str::parse for an unsigned integer: an optional '+', then one or more
\* decimal digits (the texts of the model are far below the overflow of u32)
ParseUnsigned(s) ==
    LET body == IF Len(s) > 0 /\ s[1] = "+" THEN Tail(s) ELSE s
    IN  IF Len(body) > 0 /\ \A i \in 1..Len(body) : body[i] \in Digits
        THEN OkVal(DigitsValue(body))
        ELSE ErrVal

\* a lenient parse that falls back to 1
ParseOrOne(s) == IF ParseUnsigned(s).ok THEN ParseUnsigned(s).val ELSE 1

\* .parse().unwrap_or_default()
ParseOrDefault(s) == IF ParseUnsigned(s).ok THEN ParseUnsigned(s).val ELSE 0

\* position of the first c in s, 0 when there is none
IndexOf(s, c) ==
    IF \E i \in 1..Len(s) : s[i] = c
    THEN CHOOSE i \in 1..Len(s) : s[i] = c /\ \A j \in 1..(i - 1) : s[j] # c
    ELSE 0

\* str::split_once(c)
SplitOnce(s, c) ==
    LET i == IndexOf(s, c)
    IN  IF i = 0 THEN [some |-> FALSE, left |-> <<>>, right |-> <<>>]
        ELSE [some |-> TRUE, left |-> SubSeq(s, 1, i - 1),
              right |-> SubSeq(s, i + 1, Len(s))]

\* str::split(c).collect(): the pieces between the occurrences of c
RECURSIVE Split(_, _)
Split(s, c) ==
    LET i == IndexOf(s, c)
    IN  IF i = 0 THEN <<s>>
        ELSE <<SubSeq(s, 1, i - 1)>> \o Split(SubSeq(s, i + 1, Len(s)), c)

(***************************************************************************)
(* chrono: calendar dates and times.                                       *)
(***************************************************************************)
IsLeap(y) == (y % 4 = 0 /\ y % 100 # 0) \/ y % 400 = 0

DaysInMonth(y, m) ==
    CASE m \in {1, 3, 5, 7, 8, 10, 12} -> 31
      [] m \in {4, 6, 9, 11} -> 30
      [] m = 2 -> IF IsLeap(y) THEN 29 ELSE 28

RECURSIVE DaysBefore(_, _)
DaysBefore(y, m) == IF m = 1 THEN 0 ELSE DaysBefore(y, m - 1) + DaysInMonth(y, m - 1)

NoDate == [y |-> 0, mo |-> 0, d |-> 0]
NoTime == [h |-> 0, mi |-> 0, s |-> 0]
NoDateTime == [y |-> 0, mo |-> 0, d |-> 0, h |-> 0, mi |-> 0, s |-> 0]

\* a from_ymd_opt that gives every month 31 days
FromYmdOptAnyDay(y, m, d) ==
    IF m \in 1..12 /\ d >= 1 /\ d <= 31
    THEN OkVal([y |-> y, mo |-> m, d |-> d])
    ELSE [ok |-> FALSE, val |-> NoDate]

\* NaiveDate::from_ymd_opt
FromYmdOpt(y, m, d) ==
    IF m \in 1..12 /\ d >= 1 /\ d <= DaysInMonth(y, m)
    THEN OkVal([y |-> y, mo |-> m, d |-> d])
    ELSE [ok |-> FALSE, val |-> NoDate]

\* NaiveTime::from_hms_opt
FromHmsOpt(h, mi, s) ==
    IF h < 24 /\ mi < 60 /\ s < 60
    THEN OkVal([h |-> h, mi |-> mi, s |-> s])
    ELSE [ok |-> FALSE, val |-> NoTime]

\* NaiveDateTime::new
NewDateTime(date, time) ==
    [y |-> date.y, mo |-> date.mo, d |-> date.d,
     h |-> time.h, mi |-> time.mi, s |-> time.s]

\* seconds since the start of the year 0 of the proleptic calendar is not
\* needed: every date-time the program compares is compared with one of the
\* same year or a neighbouring one, so days are counted from 1 January 2000
RECURSIVE DaysBeforeYear(_)
DaysBeforeYear(y) ==
    IF y <= 2000 THEN 0
    ELSE DaysBeforeYear(y - 1) + (IF IsLeap(y - 1) THEN 366 ELSE 365)

SecondsOf(dt) ==
    (((DaysBeforeYear(dt.y) + DaysBefore(dt.y, dt.mo) + (dt.d - 1)) * 24 + dt.h) * 60
        + dt.mi) * 60 + dt.s

\* the closure parse_time of parse_datetime
ParseTime(time) ==
    LET parts == SplitOnce(time, ":")
        hour == ParseUnsigned(parts.left)
        minute == ParseUnsigned(parts.right)
    IN  IF ~parts.some \/ ~hour.ok \/ ~minute.ok
        THEN [ok |-> FALSE, val |-> NoTime]
        ELSE FromHmsOpt(hour.val, minute.val, 0)

\* a parse_date that takes the month first and the day second
ParseDateMonthFirst(date, year) ==
    LET date_parts == Split(date, ".")
    IN  IF Len(date_parts) < 2
        THEN [ok |-> FALSE, val |-> NoDate]
        ELSE LET month == ParseUnsigned(date_parts[1])
                 day == ParseUnsigned(date_parts[2])
             IN  IF ~month.ok \/ ~day.ok
                 THEN [ok |-> FALSE, val |-> NoDate]
                 ELSE FromYmdOpt(year, month.val, day.val)

\* the closure parse_date of parse_datetime; year is Local::now().year()
ParseDate(date, year) ==
    LET date_parts == Split(date, ".")
    IN  IF Len(date_parts) < 2
        THEN [ok |-> FALSE, val |-> NoDate]
        ELSE LET month == ParseUnsigned(date_parts[2])
                 day == ParseUnsigned(date_parts[1])
             IN  IF ~month.ok \/ ~day.ok
                 THEN [ok |-> FALSE, val |-> NoDate]
                 ELSE FromYmdOpt(year, month.val, day.val)

\* parse_datetime(value), with `today` the value of Local::now()
parse_datetime(value, today) ==
    LET parts == SplitOnce(value, " ")
    IN  IF parts.some
        THEN LET date == ParseDate(parts.left, today.y)
                 time == ParseTime(parts.right)
             IN  IF date.ok /\ time.ok
                 THEN OkVal(NewDateTime(date.val, time.val))
                 ELSE [ok |-> FALSE, val |-> NoDateTime]
        ELSE LET time == ParseTime(value)
             IN  IF time.ok
                 THEN OkVal(NewDateTime(today, time.val))
                 ELSE [ok |-> FALSE, val |-> NoDateTime]

(***************************************************************************)
(* The environment: what the page, the browser and the clock may answer.   *)
(***************************************************************************)
\* the configured team name, cli.team_name
ConfiguredNames == {sAlpha, sAlphaFC}
\* tokens of the class attribute of the match row; `contains` of the code is
\* membership of the marker among the tokens
LiveMarker == "event__match--live"
ScheduledMarker == "event__match--scheduled"
Contains(class, marker) == marker \in class
\* the outcome of Element::text()
TextOk(t) == [ok |-> TRUE, text |-> t]
TextErr == [ok |-> FALSE, text |-> <<>>]
RECURSIVE SeqsUpTo(_, _)
SeqsUpTo(S, n) ==
    IF n = 0 THEN {<<>>}
    ELSE SeqsUpTo(S, n - 1)
         \cup {Append(q, x) : q \in {r \in SeqsUpTo(S, n - 1) : Len(r) = n - 1}, x \in S}

\* The site is either one whose rows range over the full alphabets below and
\* that is polled once ("full"), or one whose rows range over a core of them
\* and that is polled up to MaxCycles times ("core").
\* texts of .event__participant--home and --away
HomeTeamTexts(a) == IF a = "full" THEN {sAlpha, sBeta} ELSE {sAlpha}
AwayTeamTexts(a) == IF a = "full" THEN {sAlpha, sBeta} ELSE {sBeta}
\* texts of .event__score--home and --away
HomeScoreTexts(a) == IF a = "full" THEN {s2, sX} ELSE {s2}
AwayScoreTexts(a) == IF a = "full" THEN {s1, sX} ELSE {s1}
\* values of the class attribute
ClassValues(a) ==
    IF a = "full" THEN SUBSET {LiveMarker, ScheduledMarker}
    ELSE {{LiveMarker}, {ScheduledMarker}, {}}
\* texts of .event__time
EventTimeTexts(a) == IF a = "full" THEN {s1800, s0709_1800, s0709_2023} ELSE {s1800}
\* texts of .eventTime
ElapsedTexts(a) == IF a = "full" THEN {s10, s10q, s5, sX} ELSE {s10}
\* the texts of the .event__part--home elements of a row, each read or not
PartReads == {TextOk(sEmpty), TextOk(s1), TextErr}
PartLists(a) ==
    IF a = "full" THEN SeqsUpTo(PartReads, MaxParts) ELSE {<<>>, <<TextOk(s1)>>}
\* the passes of the loop of main the model follows
CycleCap(a) == IF a = "full" THEN 1 ELSE MaxCycles
\* the answers of find_all(".event__match"): the rows of the page, latest first
RowLists == {<<>>, <<"row1">>, <<"row1", "row2">>}
\* the values Local::now() may return
Clocks ==
    { [y |-> 2024, mo |-> 9, d |-> 7, h |-> 15, mi |-> 45, s |-> 0],
      [y |-> 2024, mo |-> 9, d |-> 7, h |-> 18, mi |-> 0, s |-> 0],
      [y |-> 2024, mo |-> 9, d |-> 7, h |-> 18, mi |-> 0, s |-> 30] }
FirstClock == [y |-> 2024, mo |-> 9, d |-> 7, h |-> 15, mi |-> 45, s |-> 0]
\* the clock does not run backwards
LaterClocks(c) == {n \in Clocks : SecondsOf(n) >= SecondsOf(c)}

(***************************************************************************)
(* enum GameTime and struct GameResult.                                    *)
(***************************************************************************)
None == [some |-> FALSE, h |-> 0, m |-> 0]
Some(h, m) == [some |-> TRUE, h |-> h, m |-> m]
WillBePlayed(opt) == [tag |-> "WillBePlayed", until |-> opt, minute |-> 0]
Played == [tag |-> "Played", until |-> None, minute |-> 0]
BreakAfter(minute) == [tag |-> "BreakAfter", until |-> None, minute |-> minute]
Playing(minute) == [tag |-> "Playing", until |-> None, minute |-> minute]
NoGameTime == [tag |-> "unset", until |-> None, minute |-> 0]

GameResult(my_team, my_team_score, opponent_team, opponent_team_score, game_time, generated) ==
    [my_team |-> my_team, my_team_score |-> my_team_score,
     opponent_team |-> opponent_team, opponent_team_score |-> opponent_team_score,
     game_time |-> game_time, generated |-> generated]
NoGameResult == GameResult(<<>>, 0, <<>>, 0, NoGameTime, NoDateTime)

\* anyhow::Result<GameResult>; err names the failing step
OkResult(r) == [state |-> "ok", err |-> "", value |-> r]
ErrResult(e) == [state |-> "err", err |-> e, value |-> NoGameResult]
NoResult == [state |-> "none", err |-> "", value |-> NoGameResult]

\* the content of the output file
InitialFile == [kind |-> "initial", value |-> NoGameResult]
SnapshotFile(r) == [kind |-> "snapshot", value |-> r]
\* File::create has emptied the file and the write stopped part-way
TruncatedFile == [kind |-> "truncated", value |-> NoGameResult]

(***************************************************************************)
(* The pure parts of get_minute_of_game and get_score.                     *)
(***************************************************************************)
\* an element that find() did not return, and one whose text was read
Absent == [found |-> FALSE, read |-> TextErr]
Present(read) == [found |-> TRUE, read |-> read]

\* the loop of get_minute_of_game over the parts: a part counts when its
\* text was read and is not empty
RECURSIVE CountPeriods(_)
CountPeriods(parts) ==
    IF parts = <<>> THEN 0
    ELSE CountPeriods(Tail(parts))
         + (IF Head(parts).ok /\ Head(parts).text # <<>> THEN 1 ELSE 0)

\* the minutes the .eventTime element adds: text().map_or(0, strip, parse, or 0)
ElapsedMinutes(read) ==
    IF read.ok THEN ParseOrDefault(StripSuffix(read.text, "'")) ELSE 0

\* get_minute_of_game after its assertion, periods >= 1
MinuteOfGame(periods, elapsed) ==
    LET minute == PERIOD_MINUTES * (periods - 1)
    IN  IF elapsed.found
        THEN Playing(minute + ElapsedMinutes(elapsed.read))
        ELSE BreakAfter(minute + PERIOD_MINUTES)

\* a countdown whose minutes are not reduced modulo 60
TimeUntilTotalMinutes(match_date_time, current) ==
    IF SecondsOf(match_date_time) < SecondsOf(current)
    THEN Some(0, 0)
    ELSE LET delta == SecondsOf(match_date_time) - SecondsOf(current)
         IN  Some(delta \div 3600, delta \div 60)

\* the countdown of get_score: (0,0) for a kick-off before now, else the
\* whole hours and the whole minutes modulo 60 of the difference
TimeUntil(match_date_time, current) ==
    IF SecondsOf(match_date_time) < SecondsOf(current)
    THEN Some(0, 0)
    ELSE LET delta == SecondsOf(match_date_time) - SecondsOf(current)
         IN  Some(delta \div 3600, (delta \div 60) % 60)

\* a choice that keeps the countdown for a row that is not scheduled either
GameTimeWithCountdown(class, event_time) == WillBePlayed(event_time)

\* the choice of the game time by the class of the row, for a row that is not live
GameTimeOfClass(class, event_time) ==
    IF Contains(class, ScheduledMarker) THEN WillBePlayed(event_time) ELSE Played

\* a struct whose two scores are crossed when the home team is my team
AssembleCrossed(name, home_team, home_score, away_team, away_score, game_time, generated) ==
    IF StartsWith(home_team, name)
    THEN GameResult(home_team, away_score, away_team, home_score, game_time, generated)
    ELSE GameResult(away_team, away_score, home_team, home_score, game_time, generated)

\* a struct that names the home team twice when the home team is not my team
AssembleDuplicated(name, home_team, home_score, away_team, away_score, game_time, generated) ==
    IF StartsWith(home_team, name)
    THEN GameResult(home_team, home_score, away_team, away_score, game_time, generated)
    ELSE GameResult(away_team, away_score, away_team, home_score, game_time, generated)

\* the struct get_score builds from what it has read
Assemble(name, home_team, home_score, away_team, away_score, game_time, generated) ==
    IF StartsWith(home_team, name)
    THEN GameResult(home_team, home_score, away_team, away_score, game_time, generated)
    ELSE GameResult(away_team, away_score, home_team, home_score, game_time, generated)

(***************************************************************************)
(* The state of the program.                                               *)
(***************************************************************************)
VARIABLES
    pc,          \* where main (and the get_score it awaits) stands
    driver,      \* the driver process: "none", "running", "killed"
    session,     \* the browser session: "none", "open", "closed", "close_failed"
    page,        \* the page the browser shows: "none", "target", "blank"
    term,        \* "running", "exited", "error" (main returned Err), "panic"
    exit_code,   \* the value of the loop expression
    file,        \* the content of the output file
    team_name,   \* cli.team_name
    now,         \* the last value Local::now() returned
    gs,          \* the locals of the get_score in progress, and what it read
    result,      \* what the last get_score returned
    cycles,      \* calls of get_score so far
    inProgress,  \* calls of get_score that have not returned
    cancelled,   \* the select of the loop has seen ctrl_c
    published,   \* the last snapshot whose write completed, else the initial content
    alphabet,    \* what the rows of the site range over: "full" or "core"
    prev,        \* what the page showed to the last get_score whose snapshot was written
    pd           \* a call of parse_datetime on its own: its arguments and its result

vars == <<pc, driver, session, page, term, exit_code, file, team_name, now, gs,
          result, cycles, inProgress, cancelled, published, alphabet, prev, pd>>

InitGs ==
    [queries |-> <<>>, sleeps |-> 0, located |-> "pending", row |-> "",
     home_team |-> <<>>, away_team |-> <<>>,
     home_score_text |-> <<>>, away_score_text |-> <<>>,
     home_score |-> 0, away_score |-> 0,
     class_read |-> FALSE, last_match_class |-> {},
     time_read |-> FALSE, time |-> Absent, match_date_time |-> NoDateTime,
     event_time |-> None,
     live_read |-> FALSE, parts |-> <<>>, periods |-> 0, elapsed |-> Absent,
     game_time |-> NoGameTime]

\* no argument
NoShape == [kind |-> "none", d |-> 0, mo |-> 0, h |-> 0, mi |-> 0,
            dot |-> FALSE, fault |-> "none"]

\* what the page showed to a get_score: the texts and the class it read
InputsOf(g) ==
    [home_team |-> g.home_team, away_team |-> g.away_team,
     home_score_text |-> g.home_score_text, away_score_text |-> g.away_score_text,
     last_match_class |-> g.last_match_class, time |-> g.time,
     parts |-> g.parts, elapsed |-> g.elapsed]

\* no call of parse_datetime on its own is under way
IdleParse == [stage |-> "idle", shape |-> NoShape, value |-> <<>>, today |-> NoDateTime,
              out |-> [ok |-> FALSE, val |-> NoDateTime]]

Init ==
    /\ pc = "start_driver"
    /\ driver = "none"
    /\ session = "none"
    /\ page = "none"
    /\ term = "running"
    /\ exit_code = 0
    /\ file = InitialFile
    /\ team_name \in ConfiguredNames
    /\ now = FirstClock
    /\ gs = InitGs
    /\ result = NoResult
    /\ cycles = 0
    /\ inProgress = 0
    /\ cancelled = FALSE
    /\ published = InitialFile
    /\ alphabet \in {"full", "core"}
    /\ prev = InputsOf(InitGs)
    /\ pd = IdleParse

\* main leaves through `?`: the rest of main, the teardown included, is skipped
MainReturnsErr ==
    /\ pc' = "done"
    /\ term' = "error"

\* a panic unwinds out of main
Panics ==
    /\ pc' = "done"
    /\ term' = "panic"

\* the top of the loop: get_score is called and runs up to its first await
CallGetScore ==
    /\ pc' = "goto"
    /\ cycles' = cycles + 1
    /\ inProgress' = inProgress + 1
    /\ gs' = InitGs

\* get_score returns r to the match of the loop
Return(r) ==
    /\ pc' = "returned"
    /\ result' = r
    /\ inProgress' = inProgress - 1

(***************************************************************************)
(* main before the loop.                                                   *)
(***************************************************************************)
\* start_driver(cli.driver)?
StartDriver ==
    /\ pc = "start_driver"
    /\ \/ /\ driver' = "running"
          /\ pc' = "connect"
          /\ term' = term
       \/ /\ MainReturnsErr
          /\ driver' = driver
    /\ UNCHANGED <<session, page, exit_code, file, team_name, alphabet, prev, pd, now, gs, result,
                   cycles, inProgress, cancelled, published>>

\* ClientBuilder::rustls()? ... .connect(..).await.expect(..), then the first
\* pass of the loop calls get_score
Connect ==
    /\ pc = "connect"
    /\ \/ /\ session' = "open"
          /\ CallGetScore
          /\ term' = term
       \/ /\ MainReturnsErr
          /\ UNCHANGED <<session, cycles, inProgress, gs>>
       \/ /\ Panics
          /\ UNCHANGED <<session, cycles, inProgress, gs>>
    /\ UNCHANGED <<driver, page, exit_code, file, team_name, alphabet, prev, pd, now, result,
                   cancelled, published>>

(***************************************************************************)
(* get_score, one action for each stretch between two fallible awaits.     *)
(***************************************************************************)
\* client.goto(url).await? and the settle delay
Goto ==
    /\ pc = "goto"
    /\ \/ /\ page' = "target"
          /\ pc' = "locate"
          /\ UNCHANGED <<result, inProgress>>
       \/ /\ Return(ErrResult("goto"))
          /\ page' = page
    /\ UNCHANGED <<driver, session, term, exit_code, file, team_name, alphabet, prev, pd, now, gs,
                   cycles, cancelled, published>>

\* a locator that takes the last element of the answer
LastRow(rows) == rows[Len(rows)]

\* the first element of the answer of find_all
FirstRow(rows) == Head(rows)

\* one pass of the loop of get_latest_match_element: the delay, the query,
\* and the return of the first row when there is one
LocatorQuery ==
    /\ pc = "locate"
    /\ Len(gs.queries) < LocatorAttempts
    /\ \/ \E rows \in RowLists :
            /\ gs' = [gs EXCEPT !.sleeps = @ + 1,
                                !.queries = Append(@, rows),
                                !.located = IF rows # <<>> THEN "some" ELSE @,
                                !.row = IF rows # <<>> THEN FirstRow(rows) ELSE @]
            /\ pc' = IF rows # <<>> THEN "read_fields" ELSE "locate"
            /\ UNCHANGED <<result, inProgress>>
       \/ /\ gs' = [gs EXCEPT !.sleeps = @ + 1, !.located = "error"]
          /\ Return(ErrResult("find_all"))
    /\ UNCHANGED <<driver, session, page, term, exit_code, file, team_name, alphabet, prev, pd, now,
                   cycles, cancelled, published>>

\* the loop ran out: Ok(None), which get_score turns into its error
LocatorExhausted ==
    /\ pc = "locate"
    /\ Len(gs.queries) >= LocatorAttempts
    /\ gs' = [gs EXCEPT !.located = "none"]
    /\ Return(ErrResult("not_found"))
    /\ UNCHANGED <<driver, session, page, term, exit_code, file, team_name, alphabet, prev, pd, now,
                   cycles, cancelled, published>>

\* the two team names, the two scores and the class attribute; the loop of the
\* locator is over, and its count of queries and delays is kept no further
ReadFields ==
    /\ pc = "read_fields"
    /\ \/ \E home \in HomeTeamTexts(alphabet), away \in AwayTeamTexts(alphabet),
            hs \in HomeScoreTexts(alphabet), as \in AwayScoreTexts(alphabet),
            class \in ClassValues(alphabet) :
            /\ gs' = [gs EXCEPT !.queries = <<>>, !.sleeps = 0,
                                !.home_team = home, !.away_team = away,
                                !.home_score_text = hs, !.away_score_text = as,
                                !.home_score = ParseOrDefault(hs),
                                !.away_score = ParseOrDefault(as),
                                !.class_read = TRUE,
                                !.last_match_class = class]
            /\ pc' = "read_time"
            /\ UNCHANGED <<result, inProgress>>
       \/ /\ Return(ErrResult("field_read"))
          /\ gs' = [gs EXCEPT !.queries = <<>>, !.sleeps = 0]
    /\ UNCHANGED <<driver, session, page, term, exit_code, file, team_name, alphabet, prev, pd, now,
                   cycles, cancelled, published>>

\* the optional .event__time element: its text goes through parse_datetime,
\* and a text that cannot be read or parsed ends get_score
ReadTime ==
    /\ pc = "read_time"
    /\ \/ /\ gs' = [gs EXCEPT !.time_read = TRUE, !.time = Absent, !.event_time = None]
          /\ pc' = "classify"
          /\ UNCHANGED <<result, inProgress, now>>
       \/ /\ gs' = [gs EXCEPT !.time_read = TRUE, !.time = Present(TextErr)]
          /\ Return(ErrResult("time_read"))
          /\ now' = now
       \/ \E text \in EventTimeTexts(alphabet), today \in LaterClocks(now) :
          \E current \in LaterClocks(today) :
            LET match_date_time == parse_datetime(text, today)
            IN  /\ now' = IF match_date_time.ok THEN current ELSE today
                /\ IF match_date_time.ok
                   THEN /\ gs' = [gs EXCEPT !.time_read = TRUE,
                                            !.time = Present(TextOk(text)),
                                            !.match_date_time = match_date_time.val,
                                            !.event_time =
                                                TimeUntil(match_date_time.val, current)]
                        /\ pc' = "classify"
                        /\ UNCHANGED <<result, inProgress>>
                   ELSE /\ gs' = [gs EXCEPT !.time_read = TRUE,
                                            !.time = Present(TextOk(text))]
                        /\ Return(ErrResult("parse_datetime"))
    /\ UNCHANGED <<driver, session, page, term, exit_code, file, team_name, alphabet, prev, pd,
                   cycles, cancelled, published>>

\* the choice of the game time; a live row goes through get_minute_of_game,
\* whose assertion panics when no part has text
Classify ==
    /\ pc = "classify"
    /\ \/ /\ ~Contains(gs.last_match_class, LiveMarker)
          /\ gs' = [gs EXCEPT !.game_time =
                                  GameTimeOfClass(gs.last_match_class, gs.event_time)]
          /\ pc' = "goto_blank"
          /\ UNCHANGED <<result, inProgress, term>>
       \/ /\ Contains(gs.last_match_class, LiveMarker)
          /\ Return(ErrResult("find_all_parts"))
          /\ UNCHANGED <<gs, term>>
       \/ /\ Contains(gs.last_match_class, LiveMarker)
          /\ \E parts \in PartLists(alphabet), elapsed \in
                    {Absent, Present(TextErr)}
                        \cup {Present(TextOk(e)) : e \in ElapsedTexts(alphabet)} :
                LET periods == CountPeriods(parts)
                IN  IF periods >= 1
                    THEN /\ gs' = [gs EXCEPT !.live_read = TRUE, !.parts = parts,
                                             !.periods = periods,
                                             !.elapsed = elapsed,
                                             !.game_time = MinuteOfGame(periods, elapsed)]
                         /\ pc' = "goto_blank"
                         /\ UNCHANGED <<result, inProgress, term>>
                    ELSE /\ elapsed = Absent
                         /\ gs' = [gs EXCEPT !.live_read = TRUE, !.parts = parts,
                                             !.periods = periods]
                         /\ Panics
                         /\ UNCHANGED <<result, inProgress>>
    /\ UNCHANGED <<driver, session, page, exit_code, file, team_name, alphabet, prev, pd, now,
                   cycles, cancelled, published>>

\* client.goto("about:blank").await?, the time stamp and the struct
GotoBlank ==
    /\ pc = "goto_blank"
    /\ \/ \E generated \in LaterClocks(now) :
            /\ page' = "blank"
            /\ now' = generated
            /\ Return(OkResult(Assemble(team_name, gs.home_team, gs.home_score,
                                        gs.away_team, gs.away_score,
                                        gs.game_time, generated)))
       \/ /\ Return(ErrResult("goto_blank"))
          /\ UNCHANGED <<page, now>>
    /\ UNCHANGED <<driver, session, term, exit_code, file, team_name, alphabet, prev, pd, gs,
                   cycles, cancelled, published>>

(***************************************************************************)
(* The loop of main and the teardown after it.                             *)
(***************************************************************************)
\* Ok(latest_match): File::create(..)? empties the file, to_writer_pretty(..)?
\* fills it; either may fail, and `?` then returns from main.  The values
\* get_score read are looked at here for the last time; what the page
\* showed is remembered while another pass of the loop may follow.
WriteSnapshot ==
    /\ pc = "returned"
    /\ result.state = "ok"
    /\ \/ /\ file' = SnapshotFile(result.value)
          /\ published' = SnapshotFile(result.value)
          /\ prev' = IF cycles < CycleCap(alphabet) THEN InputsOf(gs) ELSE prev
          /\ pc' = "wait"
          /\ term' = term
       \/ /\ MainReturnsErr
          /\ UNCHANGED <<file, published, prev>>
       \/ /\ file' = TruncatedFile
          /\ MainReturnsErr
          /\ UNCHANGED <<published, prev>>
    /\ gs' = InitGs
    /\ UNCHANGED <<driver, session, page, exit_code, team_name, alphabet, pd, now, result,
                   cycles, inProgress, cancelled>>

\* Err(err): the error is logged and the loop is left with `break 1`
ReportError ==
    /\ pc = "returned"
    /\ result.state = "err"
    /\ exit_code' = 1
    /\ pc' = "kill_driver"
    /\ gs' = InitGs
    /\ UNCHANGED <<driver, session, page, term, file, team_name, alphabet, prev, pd, now, result,
                   cycles, inProgress, cancelled, published>>

\* a loop that sees ctrl_c only after the next call of get_score has begun
CancelLate ==
    /\ pc = "wait"
    /\ cycles < CycleCap(alphabet)
    /\ cancelled' = TRUE
    /\ CallGetScore
    /\ UNCHANGED <<driver, session, page, term, exit_code, file, team_name, alphabet, prev, pd,
                   now, result, published>>

\* the select! of the loop, ctrl_c first: `break 0`
Cancel ==
    /\ pc = "wait"
    /\ cancelled' = TRUE
    /\ exit_code' = 0
    /\ pc' = "kill_driver"
    /\ UNCHANGED <<driver, session, page, term, file, team_name, alphabet, prev, pd, now, gs, result,
                   cycles, inProgress, published>>

\* the select! of the loop, the sleep first: the loop calls get_score again
Tick ==
    /\ pc = "wait"
    /\ cycles < CycleCap(alphabet)
    /\ CallGetScore
    /\ UNCHANGED <<driver, session, page, term, exit_code, file, team_name, alphabet, prev, pd, now,
                   result, cancelled, published>>

\* driver.kill().unwrap()
KillDriver ==
    /\ pc = "kill_driver"
    /\ driver' = "killed"
    /\ pc' = "close_session"
    /\ UNCHANGED <<session, page, term, exit_code, file, team_name, alphabet, prev, pd, now, gs, result,
                   cycles, inProgress, cancelled, published>>

\* c.close().await?
CloseSession ==
    /\ pc = "close_session"
    /\ \/ /\ session' = "closed"
          /\ pc' = "exit"
          /\ term' = term
       \/ /\ MainReturnsErr
          /\ session' = "close_failed"
    /\ UNCHANGED <<driver, page, exit_code, file, team_name, alphabet, prev, pd, now, gs, result,
                   cycles, inProgress, cancelled, published>>

\* exit(exit_code)
Exit ==
    /\ pc = "exit"
    /\ term' = "exited"
    /\ pc' = "done"
    /\ UNCHANGED <<driver, session, page, exit_code, file, team_name, alphabet, prev, pd, now, gs, result,
                   cycles, inProgress, cancelled, published>>

Next ==
    \/ StartDriver
    \/ Connect
    \/ Goto
    \/ LocatorQuery
    \/ LocatorExhausted
    \/ ReadFields
    \/ ReadTime
    \/ Classify
    \/ GotoBlank
    \/ WriteSnapshot
    \/ ReportError
    \/ Cancel
    \/ Tick
    \/ KillDriver
    \/ CloseSession
    \/ Exit

Spec == Init /\ [][Next]_vars

\* the exit status of the process once it has ended: the argument of exit,
\* 1 when main returns an Err, 101 when main panics
ExitStatus ==
    CASE term = "exited" -> exit_code
      [] term = "error" -> 1
      [] term = "panic" -> 101
      [] OTHER -> 0

(***************************************************************************)
(* parse_datetime on its own, called as test_parse_datetime calls it: the  *)
(* crawler is not started.  An argument is written from a shape: a time    *)
(* "HH:MM" or a date and a time "DD.MM HH:MM" (with or without a dot after *)
(* the month), of numbers in and just out of their ranges, or one of these *)
(* with a fault: a separator left out or a field that is not a number.     *)
(***************************************************************************)
DigitChar(n) ==
    CASE n = 0 -> "0" [] n = 1 -> "1" [] n = 2 -> "2" [] n = 3 -> "3"
      [] n = 4 -> "4" [] n = 5 -> "5" [] n = 6 -> "6" [] n = 7 -> "7"
      [] n = 8 -> "8" [] n = 9 -> "9"

\* a number below 100 in two digits, as the page and the test write it
TwoDigits(n) == <<DigitChar(n \div 10), DigitChar(n % 10)>>

HourValues == 0..24
MinuteValues == 0..60
DayValues == 0..32
MonthValues == 0..13
\* the times of day the dated arguments carry
DatedTimes == {<<0, 0>>, <<18, 0>>, <<23, 59>>, <<24, 0>>, <<0, 60>>}
TimeFaults == {"no_colon", "hour_text", "minute_text"}
DateFaults == {"no_dot", "day_text", "month_text"}

Shape(kind, d, mo, h, mi, dot, fault) ==
    [kind |-> kind, d |-> d, mo |-> mo, h |-> h, mi |-> mi, dot |-> dot, fault |-> fault]

TimeShapes ==
    {Shape("time", 1, 1, h, mi, FALSE, "none") : h \in HourValues, mi \in MinuteValues}

DatedShapes ==
    {Shape("date_time", d, mo, t[1], t[2], dot, "none") :
        d \in DayValues, mo \in MonthValues, t \in DatedTimes, dot \in BOOLEAN}

FaultyShapes ==
    {Shape("time", 1, 1, 18, 0, FALSE, f) : f \in TimeFaults}
    \cup {Shape("date_time", 7, 9, 18, 0, dot, f) : dot \in BOOLEAN, f \in TimeFaults}
    \cup {Shape("date_time", 7, 9, 18, 0, dot, f) : dot \in BOOLEAN, f \in DateFaults}

Shapes == TimeShapes \cup DatedShapes \cup FaultyShapes

\* the text of a shape
Render(sh) ==
    LET hour == IF sh.fault = "hour_text" THEN <<"1", "x">> ELSE TwoDigits(sh.h)
        minute == IF sh.fault = "minute_text" THEN <<"x">> ELSE TwoDigits(sh.mi)
        day == IF sh.fault = "day_text" THEN <<"x">> ELSE TwoDigits(sh.d)
        month == IF sh.fault = "month_text" THEN <<"0", "x">> ELSE TwoDigits(sh.mo)
        time == hour \o (IF sh.fault = "no_colon" THEN <<>> ELSE <<":">>) \o minute
        date == day \o (IF sh.fault = "no_dot" THEN <<>> ELSE <<".">>) \o month
                    \o (IF sh.dot THEN <<".">> ELSE <<>>)
    IN  IF sh.kind = "time" THEN time ELSE date \o <<" ">> \o time

\* the values of Local::now() a call may see: a day of a leap year and a
\* day of a common year
Todays ==
    { [y |-> 2024, mo |-> 9, d |-> 7, h |-> 15, mi |-> 45, s |-> 0],
      [y |-> 2023, mo |-> 3, d |-> 1, h |-> 9, mi |-> 30, s |-> 0] }

InitParse ==
    /\ pc = "start_driver"
    /\ driver = "none"
    /\ session = "none"
    /\ page = "none"
    /\ term = "running"
    /\ exit_code = 0
    /\ file = InitialFile
    /\ team_name = sAlpha
    /\ now = FirstClock
    /\ gs = InitGs
    /\ result = NoResult
    /\ cycles = 0
    /\ inProgress = 0
    /\ cancelled = FALSE
    /\ published = InitialFile
    /\ alphabet = "core"
    /\ prev = InputsOf(InitGs)
    /\ pd = IdleParse

\* the caller passes a text
CallParse ==
    /\ pd.stage = "idle"
    /\ \E sh \in Shapes, today \in Todays :
          pd' = [pd EXCEPT !.stage = "called", !.shape = sh,
                           !.value = Render(sh), !.today = today]
    /\ UNCHANGED <<pc, driver, session, page, term, exit_code, file, team_name, now, gs,
                   result, cycles, inProgress, cancelled, published, alphabet, prev>>

\* parse_datetime runs and returns
ReturnParse ==
    /\ pd.stage = "called"
    /\ pd' = [pd EXCEPT !.stage = "returned",
                        !.out = parse_datetime(pd.value, pd.today)]
    /\ UNCHANGED <<pc, driver, session, page, term, exit_code, file, team_name, now, gs,
                   result, cycles, inProgress, cancelled, published, alphabet, prev>>

NextParse ==
    \/ CallParse
    \/ ReturnParse

SpecParse == InitParse /\ [][NextParse]_vars

(***************************************************************************)
(* Properties of the poll loop.                                            *)
(***************************************************************************)
\* the loop of main has been left (by break, by `?` or by a panic)
LoopStopped == cycles >= 1 /\ pc \in {"kill_driver", "close_session", "exit", "done"}

\* C1: a scrape cycle that failed leaves the loop running; the loop is
\* stopped after a failed cycle only when the cancellation signal was seen.
C1_FailedCycleKeepsRunning ==
    (result.state = "err" /\ LoopStopped) => cancelled

\* C2: between two passes of the loop and after it, the output file holds
\* the snapshot of the most recent pass that succeeded, or its initial
\* content when none has.
C2_FileHoldsLastSnapshot == file = published

C4_TeardownOnEveryExit ==
    (term # "running" /\ session # "none")
        => (driver = "killed" /\ session \in {"closed", "close_failed"})

(***************************************************************************)
(* Properties of the locator.                                              *)
(***************************************************************************)
\* C5: the locator issues at most 10 queries, each after a delay; it returns
\* the first record of the first query that is not empty and queries no
\* more; after 10 empty queries it returns None, and get_score fails.
C5_Locator ==
    /\ Len(gs.queries) <= 10
    /\ gs.sleeps = Len(gs.queries) + (IF gs.located = "error" THEN 1 ELSE 0)
    /\ \A i \in 1..(Len(gs.queries) - 1) : gs.queries[i] = <<>>
    /\ (pc = "locate") => (gs.located = "pending" /\ \A i \in 1..Len(gs.queries) : gs.queries[i] = <<>>)
    /\ (pc = "read_fields")
        => /\ gs.located = "some"
           /\ Len(gs.queries) >= 1
           /\ gs.queries[Len(gs.queries)] # <<>>
           /\ gs.row = Head(gs.queries[Len(gs.queries)])
    /\ (gs.located = "none")
        => /\ Len(gs.queries) = 10
           /\ \A i \in 1..10 : gs.queries[i] = <<>>
           /\ pc = "returned"
           /\ result = ErrResult("not_found")

\* two empty answers, then the row of the third query is returned
C5_Witness ==
    /\ pc = "read_fields"
    /\ Len(gs.queries) = 3
    /\ Len(gs.queries[3]) = 2
    /\ gs.row = "row1"

(***************************************************************************)
(* Properties of the classification.                                       *)
(***************************************************************************)
\* the row get_score has read signals neither live nor scheduled
SignalsFinished ==
    /\ gs.class_read
    /\ ~Contains(gs.last_match_class, LiveMarker)
    /\ ~Contains(gs.last_match_class, ScheduledMarker)

\* the row get_score has read signals scheduled (and not live)
SignalsScheduled ==
    /\ gs.class_read
    /\ ~Contains(gs.last_match_class, LiveMarker)
    /\ Contains(gs.last_match_class, ScheduledMarker)

\* the text of .event__time was read and parse_datetime rejects it
KickOffUnparsable ==
    /\ gs.time.found
    /\ gs.time.read.ok
    /\ ~parse_datetime(gs.time.read.text, now).ok

\* the parts of the row whose text was read and is not empty
CompletedPeriods ==
    Cardinality({i \in DOMAIN gs.parts : gs.parts[i].ok /\ gs.parts[i].text # <<>>})

\* C6: a row that signals neither live nor scheduled yields Played, whatever
\* the kick-off fragment is: absent, parsable or not.  (A navigation away
\* that fails and a fragment whose text cannot be read are left aside.)
C6_FinishedAlways ==
    (pc = "returned" /\ SignalsFinished /\ result.err \notin {"goto_blank", "time_read"})
        => (result.state = "ok" /\ result.value.game_time = Played)

\* C7: a scheduled row whose kick-off text does not parse yields
\* WillBePlayed(None); the parse failure does not fail the cycle.
C7_ScheduledUnparsable ==
    (pc = "returned" /\ SignalsScheduled /\ KickOffUnparsable)
        => (result.state = "ok" /\ result.value.game_time = WillBePlayed(None))

\* C8: a live row with n >= 1 completed periods yields Playing((n-1)*20 + e)
\* when the elapsed fragment is present and parses as the integer e once a
\* trailing minute marker is stripped, and BreakAfter((n-1)*20 + 20) in
\* every other case.  (A fragment whose text cannot be read is left aside.)
C8_LiveOrBreak ==
    (pc = "goto_blank" /\ gs.live_read /\ CompletedPeriods >= 1
        /\ (gs.elapsed.found => gs.elapsed.read.ok))
        => LET base == (CompletedPeriods - 1) * 20
               e == ParseUnsigned(StripSuffix(gs.elapsed.read.text, "'"))
           IN  IF gs.elapsed.found /\ gs.elapsed.read.ok /\ e.ok
               THEN gs.game_time = Playing(base + e.val)
               ELSE gs.game_time = BreakAfter(base + 20)

\* C9: a live row with no completed period makes get_score return an error:
\* no snapshot, no write, and the loop is handed an error outcome rather
\* than being taken down.
C9_ZeroPeriodsFailCycle ==
    (gs.live_read /\ CompletedPeriods = 0)
        => /\ term = "running"
           /\ pc = "returned"
           /\ result.state = "err"
           /\ file = published

(***************************************************************************)
(* Properties of the team designation.                                     *)
(***************************************************************************)
\* the cycle of the end-to-end example, but for the configured name: home
\* "Alpha", away "Beta", scores 2 and 1, live, one completed period, elapsed "10"
ExampleCycle ==
    /\ pc = "returned"
    /\ result.state = "ok"
    /\ gs.home_team = sAlpha
    /\ gs.away_team = sBeta
    /\ gs.home_score_text = s2
    /\ gs.away_score_text = s1
    /\ Contains(gs.last_match_class, LiveMarker)
    /\ gs.live_read
    /\ CompletedPeriods = 1
    /\ gs.elapsed = Present(TextOk(s10))

\* the snapshot of the end-to-end example
ExampleSnapshot ==
    /\ result.value.my_team = sAlpha
    /\ result.value.my_team_score = 2
    /\ result.value.opponent_team = sBeta
    /\ result.value.opponent_team_score = 1
    /\ result.value.game_time = Playing(10)

\* C10 as stated: with the configured name "Alpha FC" the example cycle
\* produces the example snapshot.
C10_EndToEndAlphaFC == (ExampleCycle /\ team_name = sAlphaFC) => ExampleSnapshot

\* C10 as amended: with the configured name "Alpha", a prefix of the home
\* team's name, the example cycle produces the example snapshot.
C10_EndToEndAlpha == (ExampleCycle /\ team_name = sAlpha) => ExampleSnapshot

\* the example cycle has run with the configured name "Alpha"
C10_Witness == ExampleCycle /\ team_name = sAlpha


\* get_score has returned a snapshot for the teams and scores it read
SnapshotReturned == pc = "returned" /\ result.state = "ok"

\* the configured name is a prefix of neither team name read from the page
NeitherTeamMatches ==
    /\ ~StartsWith(gs.home_team, team_name)
    /\ ~StartsWith(gs.away_team, team_name)

\* C11: when the configured name is a prefix of neither team name of the
\* page, the cycle produces no snapshot.
C11_NoMatchIsAnError == (pc = "returned" /\ gs.class_read /\ NeitherTeamMatches)
                            => result.state = "err"

\* C12: every snapshot places one page team in my_team and the other in
\* opponent_team, each with the score read for it: the snapshot is the home
\* team against the away team or the away team against the home team.
C12_TeamScorePairing ==
    SnapshotReturned =>
        LET v == result.value
            hs == IF ParseUnsigned(gs.home_score_text).ok
                  THEN ParseUnsigned(gs.home_score_text).val ELSE 0
            as == IF ParseUnsigned(gs.away_score_text).ok
                  THEN ParseUnsigned(gs.away_score_text).val ELSE 0
        IN  \/ /\ v.my_team = gs.home_team /\ v.my_team_score = hs
               /\ v.opponent_team = gs.away_team /\ v.opponent_team_score = as
            \/ /\ v.my_team = gs.away_team /\ v.my_team_score = as
               /\ v.opponent_team = gs.home_team /\ v.opponent_team_score = hs

\* a snapshot of a page whose team names differ and match the configured
\* name on neither side, with two different scores
C12_Witness ==
    /\ SnapshotReturned
    /\ gs.home_team = sBeta
    /\ gs.away_team = sAlpha
    /\ team_name = sAlphaFC
    /\ gs.home_score_text = s2
    /\ gs.away_score_text = s1


(***************************************************************************)
(* Properties of the countdown.                                            *)
(***************************************************************************)
\* a scheduled row whose kick-off text was parsed has been classified; `now`
\* is still the instant the countdown was taken at
ScheduledClassified ==
    /\ pc = "goto_blank"
    /\ SignalsScheduled
    /\ gs.time.found
    /\ gs.time.read.ok

\* C13: for a scheduled row whose kick-off text parses to K, with N the
\* local time: K <= N gives Some((0,0)); otherwise Some((h,m)) with
\* 0 <= m < 60 and h*60 + m the whole minutes of K - N.
C13_Countdown ==
    ScheduledClassified =>
        LET K == SecondsOf(gs.match_date_time)
            N == SecondsOf(now)
            u == gs.game_time.until
        IN  /\ gs.game_time.tag = "WillBePlayed"
            /\ u.some
            /\ IF K <= N
               THEN u.h = 0 /\ u.m = 0
               ELSE /\ u.m \in 0..59
                    /\ u.h * 60 + u.m = (K - N) \div 60

\* kick-off at 18:00 seen at 15:45:00: two hours and fifteen minutes
C13_Witness ==
    /\ ScheduledClassified
    /\ gs.match_date_time = [y |-> 2024, mo |-> 9, d |-> 7, h |-> 18, mi |-> 0, s |-> 0]
    /\ now = [y |-> 2024, mo |-> 9, d |-> 7, h |-> 15, mi |-> 45, s |-> 0]
    /\ gs.game_time = WillBePlayed(Some(2, 15))


(***************************************************************************)
(* Properties of get_score as a whole.                                     *)
(***************************************************************************)
\* C14: when get_score returns after it has navigated to the target page,
\* with a snapshot or with a failure, the browser shows the blank page.
\* (A navigation that itself failed is left aside.)
C14_NavigateAwayBeforeReturn ==
    (pc = "returned" /\ result.err \notin {"goto", "goto_blank"}) => page = "blank"

\* the score text of the home (away) team was read and is no number
HomeScoreUnparsable == gs.class_read /\ ~ParseUnsigned(gs.home_score_text).ok
AwayScoreUnparsable == gs.class_read /\ ~ParseUnsigned(gs.away_score_text).ok

\* C15: a score text that is no number becomes the score 0, in get_score
\* and in the snapshot, and it is never the reason a cycle fails: a cycle
\* that fails after the scores were read fails at a later step.
C15_ScoreLeniency ==
    /\ HomeScoreUnparsable => gs.home_score = 0
    /\ AwayScoreUnparsable => gs.away_score = 0
    /\ (SnapshotReturned /\ HomeScoreUnparsable)
        => (IF StartsWith(gs.home_team, team_name)
            THEN result.value.my_team_score ELSE result.value.opponent_team_score) = 0
    /\ (SnapshotReturned /\ AwayScoreUnparsable)
        => (IF StartsWith(gs.home_team, team_name)
            THEN result.value.opponent_team_score ELSE result.value.my_team_score) = 0
    /\ (pc = "returned" /\ result.state = "err"
            /\ (HomeScoreUnparsable \/ AwayScoreUnparsable))
        => result.err \in {"time_read", "parse_datetime", "find_all_parts", "goto_blank"}

\* a snapshot of a row whose home score text is "x"
C15_Witness ==
    /\ SnapshotReturned
    /\ gs.home_score_text = sX
    /\ gs.away_score_text = s1
    /\ result.value.my_team_score + result.value.opponent_team_score = 1


\* two snapshots that differ at most in the time stamp
EqualButGenerated(a, b) ==
    [a EXCEPT !.generated = NoDateTime] = [b EXCEPT !.generated = NoDateTime]

\* two snapshots that differ at most in the time stamp and the countdown
EqualButGeneratedAndUntil(a, b) ==
    [a EXCEPT !.generated = NoDateTime, !.game_time.until = None]
        = [b EXCEPT !.generated = NoDateTime, !.game_time.until = None]

\* get_score has returned a second snapshot of a page that showed it what it
\* showed the get_score before, whose snapshot is the one in the file
SecondRunOfSamePage ==
    /\ SnapshotReturned
    /\ published.kind = "snapshot"
    /\ prev = InputsOf(gs)

\* C16 as stated: two runs of get_score against an unchanged page give
\* snapshots that differ in the time stamp only, whatever the phase and
\* however the clock has moved.
C16_SameButGenerated ==
    SecondRunOfSamePage => EqualButGenerated(published.value, result.value)

\* C16 as amended: they differ in the time stamp only, unless the row is
\* scheduled: then they may also differ in the countdown, which is counted
\* from the clock of each run.
C16_SameButGeneratedAndCountdown ==
    SecondRunOfSamePage =>
        IF SignalsScheduled
        THEN EqualButGeneratedAndUntil(published.value, result.value)
        ELSE EqualButGenerated(published.value, result.value)

\* the second run of a scheduled row, with another countdown than the first
C16_Witness ==
    /\ SecondRunOfSamePage
    /\ SignalsScheduled
    /\ published.value.game_time.until # result.value.game_time.until


(***************************************************************************)
(* Properties of parse_datetime.                                           *)
(***************************************************************************)
\* the numbers of the argument are a time of day
ValidTime(sh) == sh.h \in 0..23 /\ sh.mi \in 0..59

\* the numbers of the argument are a day of the year of `today`
ValidDate(sh, today) ==
    /\ sh.mo \in 1..12
    /\ sh.d >= 1
    /\ sh.d <= (IF sh.mo = 2 THEN (IF IsLeap(today.y) THEN 29 ELSE 28)
                ELSE IF sh.mo \in {4, 6, 9, 11} THEN 30 ELSE 31)

\* C17: "HH:MM" with a valid hour and minute gives the current local date at
\* h:m:00; "DD.MM HH:MM", with or without a dot after the month, with a valid
\* day and month of the current year gives that day and month of the
\* current local year at h:m:00.
C17_ParseSucceeds ==
    (pd.stage = "returned" /\ pd.shape.fault = "none" /\ ValidTime(pd.shape)) =>
        IF pd.shape.kind = "time"
        THEN pd.out = [ok |-> TRUE,
                       val |-> [y |-> pd.today.y, mo |-> pd.today.mo, d |-> pd.today.d,
                                h |-> pd.shape.h, mi |-> pd.shape.mi, s |-> 0]]
        ELSE ValidDate(pd.shape, pd.today) =>
                pd.out = [ok |-> TRUE,
                          val |-> [y |-> pd.today.y, mo |-> pd.shape.mo, d |-> pd.shape.d,
                                   h |-> pd.shape.h, mi |-> pd.shape.mi, s |-> 0]]

\* the argument of the test, "07.09. 18:00", has given 7 September of the
\* current year at 18:00:00
C17_Witness ==
    /\ pd.stage = "returned"
    /\ pd.value = s0709_1800
    /\ pd.out.ok
    /\ pd.out.val = [y |-> pd.today.y, mo |-> 9, d |-> 7, h |-> 18, mi |-> 0, s |-> 0]

\* the argument is one of those that must be refused
Malformed(sh, today) ==
    \/ sh.fault # "none"
    \/ ~ValidTime(sh)
    \/ sh.kind = "date_time" /\ ~ValidDate(sh, today)

\* C18: every call returns a success with a date-time or a failure; it is a
\* failure when the colon or the dot is missing, when a field is not an
\* integer, and when the numbers are not a date and a time of day (month 13,
\* day 32, hour 24, minute 60, a day the month does not have).
C18_ParseFails ==
    pd.stage = "returned" =>
        /\ pd.out.ok \in BOOLEAN
        /\ ~pd.out.ok => pd.out.val = NoDateTime
        /\ Malformed(pd.shape, pd.today) => ~pd.out.ok

\* 29 February of a common year has been refused
C18_Witness ==
    /\ pd.stage = "returned"
    /\ pd.shape.fault = "none"
    /\ pd.shape.kind = "date_time" /\ pd.shape.d = 29 /\ pd.shape.mo = 2
    /\ ValidTime(pd.shape)
    /\ pd.today.y = 2023
    /\ ~pd.out.ok


(***************************************************************************)
(* Properties of the exit status.                                          *)
(***************************************************************************)
\* the process has ended
Terminated == pc = "done" /\ term # "running"

\* C19: the process ends with status 0 exactly when the loop was stopped by
\* the cancellation signal at the wait point; an end brought about by a
\* failed cycle, by a failure of the output file or by a violated
\* precondition has a status other than 0.
C19_ExitStatus ==
    Terminated =>
        /\ (ExitStatus = 0) <=> cancelled
        /\ (result.state = "err" \/ file = TruncatedFile \/ term = "panic") => ExitStatus # 0

====
